---- MODULE Spec2Model ----
(***************************************************************************)
(* AgoraX Audio signaling server: the room registry `rooms`, the Socket.IO *)
(* room subscriptions of every socket, and the handlers registered in      *)
(* io.on("connection", ...): join-voice-room, leave-voice-room,            *)
(* voice-offer, voice-answer, ice-candidate and disconnect.                *)
(*                                                                         *)
(* Node runs every handler to completion on one thread, so each handler is *)
(* one atomic action.  The variables emitted, hooks, fetches, uncaught,    *)
(* event and pre describe the handler that ran last: what it sent, which   *)
(* finalize closures it started, which inbound event it served and the     *)
(* registry and subscriptions it started from.                             *)
(*                                                                         *)
(* What happens after a handler returned is in inflight, issued, emptied   *)
(* (the finalize requests the detached closures issued) and in wire, clock *)
(* and last (the packets on their way to each socket).  Spec and SpecCap   *)
(* look at one handler at a time and leave these as they start; SpecFin    *)
(* follows the finalize requests and SpecOrder the packets.                *)
(* SpecApi is the server of src/api/index.ts, whose join-voice-room and    *)
(* disconnect handlers differ.                                             *)
(***************************************************************************)
EXTENDS Integers, Sequences, FiniteSets, TLC

VARIABLES
    rooms,        \* the registry: entries [id, users] in key insertion order
    joined,       \* socket.rooms: the Socket.IO rooms each socket is subscribed to
    connected,    \* identities of the sockets that are connected
    nextId,       \* number of socket identities handed out so far
    RESUME_BASE,  \* process.env.RESUME_BASE ("" when not configured)
    emitted,      \* events sent by the last handler, in order
    hooks,        \* room ids whose finalize closure the last handler started
    fetches,      \* finalize requests issued by the last handler
    uncaught,     \* TRUE when an error escaped the last handler
    event,        \* the inbound event the last handler served
    pre,          \* registry and subscriptions when the last handler started
    inflight,     \* finalize requests issued and not yet settled, oldest first
    issued,       \* per room id: finalize requests issued so far
    emptied,      \* per room id: times the room went from non-empty to empty
    wire,         \* per socket: packets sent to it and not yet received
    clock,        \* number of handlers that sent something so far
    last          \* per socket and room: clock of the last packet received

vars == <<rooms, joined, connected, nextId, RESUME_BASE,
          emitted, hooks, fetches, uncaught, event, pre,
          inflight, issued, emptied, wire, clock, last>>

FinVars == <<inflight, issued, emptied>>

WireVars == <<wire, clock, last>>

-----------------------------------------------------------------------------
(* Bounds and input sets *)

\* Connections the server accepts in Spec.
MaxConns == 2

\* Connections the server accepts in SpecCap beyond those that fill the room.
CapExtra == 2

\* Rooms that become empty in SpecFin before the clients stop.
MaxEmptied == 3

\* Handlers that send something in SpecOrder before the clients stop.
MaxClock == 3

MAX_ROOM_SIZE == 10

ConnName == <<"c1", "c2", "c3", "c4", "c5", "c6", "c7", "c8", "c9", "c10",
              "c11", "c12", "c13", "c14", "c15", "c16">>

Id(i) == ConnName[i]

Ids(n) == {Id(i) : i \in 1..n}

\* Keys every JavaScript object inherits from Object.prototype.
ProtoKeys == {"constructor"}

\* Room identifiers the clients send: an ordinary one, one equal to the
\* identity of a socket, one inherited key.
RoomIds == {"r 1", "c1"} \cup ProtoKeys

ResumeValues == {"", "http://resume/"}

\* The JavaScript value undefined: a field the client left out.
UNDEFINED == "undefined"

\* A relay event sent without a payload object.
NoPayload == [payload |-> UNDEFINED]

RelayTargets == {"c1", "c2", "r 1", UNDEFINED}

RelayRoomIds == {"r 1"}

RelayBodies == {"X"}

\* A second payload, without roomId, for one target.
OtherTargets == {"c1"}

OtherBodies == {"Y"}

\* A from field the client puts into its own payload.
ClientFrom == {"c1"}

-----------------------------------------------------------------------------
(* The registry: a JavaScript object used as a map *)

Keys(rs) == {rs[i].id : i \in 1..Len(rs)}

\* rooms[roomId] is truthy: an own entry, or a member inherited from
\* Object.prototype.
Truthy(rs, r) == r \in Keys(rs) \/ r \in ProtoKeys

Index(rs, r) == CHOOSE i \in 1..Len(rs) : rs[i].id = r

\* rooms[roomId].users of an own entry
Users(rs, r) == rs[Index(rs, r)].users

\* rooms[roomId] = { users: [] }
Create(rs, r) == Append(rs, [id |-> r, users |-> <<>>])

\* rooms[roomId].users = us
SetUsers(rs, r, us) == [rs EXCEPT ![Index(rs, r)].users = us]

\* A handler that forgets to delete the room.
Delete_Forgotten(rs, r) == rs

\* delete rooms[roomId]
Delete(rs, r) == SelectSeq(rs, LAMBDA e : e.id # r)

\* A membership test that looks at the first entry only.
Includes_FirstOnly(us, id) == Len(us) > 0 /\ us[1] = id

\* users.includes(id)
Includes(us, id) == \E i \in 1..Len(us) : us[i] = id

\* A filter with the comparison inverted: it keeps only id.
Without_Inverted(us, id) == SelectSeq(us, LAMBDA u : u = id)

\* users.filter(u => u !== id)
Without(us, id) == SelectSeq(us, LAMBDA u : u # id)

Members(rs, r) == IF r \in Keys(rs)
                  THEN {Users(rs, r)[i] : i \in 1..Len(Users(rs, r))}
                  ELSE {}

Size(rs, r) == IF r \in Keys(rs) THEN Len(Users(rs, r)) ELSE 0

-----------------------------------------------------------------------------
(* Socket.IO: who receives an emit *)

\* socket.emit(ev, arg)
ToSocket(c) == {c}

\* io.to(room).emit(ev, arg): every socket subscribed to room
IoTo(jn, room) == {d \in DOMAIN jn : room \in jn[d]}

\* socket.to(room).emit(ev, arg): the same, except the sender
SocketTo(jn, c, room) == IoTo(jn, room) \ {c}

Emit(ev, to, arg, rcpts) == [ev |-> ev, to |-> to, arg |-> arg, rcpts |-> rcpts]

-----------------------------------------------------------------------------
(* The finalize request *)

\* base.replace(/\/+$/, '')
StripTrailingSlashes(base) ==
    IF base = "http://resume/" THEN "http://resume" ELSE base

\* encodeURIComponent(roomId), on the room identifiers of the model: only the
\* space of "r 1" is outside the characters it keeps.
EncodeURIComponent(r) == IF r = "r 1" THEN "r%201" ELSE r

FinalizeUrl(base, r) ==
    [base |-> StripTrailingSlashes(base), path |-> "/api/audio/finalize",
     roomId |-> EncodeURIComponent(r), method |-> "POST"]

\* The requests the finalize closure of room r issues before its first await.
FinalizeFetches(base, r) ==
    IF base # "" THEN <<FinalizeUrl(base, r)>> ELSE <<>>

-----------------------------------------------------------------------------
Snapshot == [rooms |-> rooms, joined |-> joined, connected |-> connected]

\* Nothing requested, nothing sent.
InitAsync ==
    /\ inflight = <<>>
    /\ issued = [r \in RoomIds |-> 0]
    /\ emptied = [r \in RoomIds |-> 0]
    /\ wire = [d \in Ids(Len(ConnName)) |-> <<>>]
    /\ clock = 0
    /\ last = [d \in Ids(Len(ConnName)) |-> [r \in RoomIds |-> 0]]

Init ==
    /\ rooms = <<>>
    /\ joined = [d \in Ids(Len(ConnName)) |-> {}]
    /\ connected = {}
    /\ nextId = 0
    /\ RESUME_BASE \in ResumeValues
    /\ emitted = <<>>
    /\ hooks = <<>>
    /\ fetches = <<>>
    /\ uncaught = FALSE
    /\ event = [op |-> "init"]
    /\ pre = Snapshot
    /\ InitAsync

\* io.on("connection"): a new socket gets a fresh identity and Socket.IO
\* subscribes it to the room named by that identity.
Connect(limit) ==
    /\ nextId < limit
    /\ nextId' = nextId + 1
    /\ connected' = connected \cup {Id(nextId + 1)}
    /\ joined' = [joined EXCEPT ![Id(nextId + 1)] = {Id(nextId + 1)}]
    /\ emitted' = <<>>
    /\ hooks' = <<>>
    /\ fetches' = <<>>
    /\ uncaught' = FALSE
    /\ event' = [op |-> "connection", from |-> Id(nextId + 1)]
    /\ pre' = Snapshot
    /\ UNCHANGED <<rooms, RESUME_BASE>>


-----------------------------------------------------------------------------
(* join-voice-room *)

\* A limit check that is off by one.
RoomIsFull_OffByOne(us) == Len(us) > MAX_ROOM_SIZE

\* rooms[roomId].users.length >= 10
RoomIsFull(us) == Len(us) >= MAX_ROOM_SIZE

\* A room-full sent to the whole room instead of the requester.
RoomFullReply_ToRoom(c, roomId) ==
    <<Emit("room-full", roomId, [roomId |-> roomId, max |-> MAX_ROOM_SIZE],
           IoTo(joined, roomId))>>

\* socket.emit("room-full", { roomId, max: 10 })
RoomFullReply(c, roomId) ==
    <<Emit("room-full", c, [roomId |-> roomId, max |-> MAX_ROOM_SIZE], ToSocket(c))>>

\* socket.to(roomId).emit("user-joined", socket.id)
UserJoined(jn, c, roomId) ==
    <<Emit("user-joined", roomId, c, SocketTo(jn, c, roomId))>>

JoinVoiceRoom(c, roomId) ==
    /\ c \in connected
    /\ event' = [op |-> "join-voice-room", from |-> c, roomId |-> roomId]
    /\ pre' = Snapshot
    /\ hooks' = <<>>
    /\ fetches' = <<>>
    /\ UNCHANGED <<connected, nextId, RESUME_BASE>>
    /\ LET rs1 == IF ~Truthy(rooms, roomId) THEN Create(rooms, roomId) ELSE rooms
       IN  IF roomId \notin Keys(rs1)
           THEN \* rooms[roomId] is an inherited member without users:
                \* reading users.length throws, and nothing catches it (the
                \* registry of a restarted process is the one of Init)
                /\ rooms' = rs1
                /\ joined' = joined
                /\ emitted' = <<>>
                /\ uncaught' = TRUE
           ELSE IF RoomIsFull(Users(rs1, roomId))
           THEN /\ rooms' = rs1
                /\ joined' = joined
                /\ emitted' = RoomFullReply(c, roomId)
                /\ uncaught' = FALSE
           ELSE LET added == ~Includes(Users(rs1, roomId), c)
                    rs2 == IF added
                           THEN SetUsers(rs1, roomId, Append(Users(rs1, roomId), c))
                           ELSE rs1
                    jn == [joined EXCEPT ![c] = @ \cup {roomId}]
                IN  /\ rooms' = rs2
                    /\ joined' = jn
                    /\ emitted' = IF added THEN UserJoined(jn, c, roomId) ELSE <<>>
                    /\ uncaught' = FALSE

-----------------------------------------------------------------------------
(* leave-voice-room *)

\* A user-left sent with socket.to(roomId) while the sender's id is taken
\* for the room: it reaches the sender's own room.
UserLeft_ToSelf(jn, c, roomId) ==
    <<Emit("user-left", c, c, IoTo(jn, c))>>

\* io.to(roomId).emit("user-left", socket.id)
UserLeft(jn, c, roomId) ==
    <<Emit("user-left", roomId, c, IoTo(jn, roomId))>>

LeaveVoiceRoom(c, roomId) ==
    /\ c \in connected
    /\ event' = [op |-> "leave-voice-room", from |-> c, roomId |-> roomId]
    /\ pre' = Snapshot
    /\ uncaught' = FALSE
    /\ UNCHANGED <<connected, nextId, RESUME_BASE>>
    /\ LET jn == [joined EXCEPT ![c] = @ \ {roomId}]
       IN  /\ joined' = jn
           /\ IF ~Truthy(rooms, roomId)
              THEN /\ rooms' = rooms
                   /\ emitted' = <<>>
                   /\ hooks' = <<>>
                   /\ fetches' = <<>>
              ELSE IF roomId \notin Keys(rooms)
              THEN \* inherited member: users.filter throws inside the try,
                   \* the catch swallows it
                   /\ rooms' = rooms
                   /\ emitted' = <<>>
                   /\ hooks' = <<>>
                   /\ fetches' = <<>>
              ELSE LET us == Without(Users(rooms, roomId), c)
                       rs1 == SetUsers(rooms, roomId, us)
                   IN  /\ emitted' = UserLeft(jn, c, roomId)
                       /\ IF Len(us) = 0
                          THEN /\ hooks' = <<roomId>>
                               /\ fetches' = FinalizeFetches(RESUME_BASE, roomId)
                               /\ rooms' = Delete(rs1, roomId)
                          ELSE /\ hooks' = <<>>
                               /\ fetches' = <<>>
                               /\ rooms' = rs1

-----------------------------------------------------------------------------
(* voice-offer, voice-answer, ice-candidate *)

\* A forwarded offer that keeps the from field the client sent.
OfferMessage_ClientFrom(c, data) ==
    [from |-> data.from, offer |-> data.offer, roomId |-> data.roomId]

\* { from: socket.id, offer, roomId }
OfferMessage(c, data) ==
    [from |-> c, offer |-> data.offer, roomId |-> data.roomId]

\* { from: socket.id, answer, roomId }
AnswerMessage(c, data) ==
    [from |-> c, answer |-> data.answer, roomId |-> data.roomId]

\* { from: socket.id, candidate }
CandidateMessage(c, data) ==
    [from |-> c, candidate |-> data.candidate]

\* A relay that also announces the sender to the target as a new member.
Relay_Announces(jn, ev, to, msg) ==
    <<Emit(ev, to, msg, IoTo(jn, to)),
      Emit("user-joined", to, msg.from, IoTo(jn, to))>>

\* io.to(to).emit(ev, msg)
Relay(jn, ev, to, msg) ==
    <<Emit(ev, to, msg, IoTo(jn, to))>>

VoiceOffer(c, data) ==
    /\ c \in connected
    /\ event' = [op |-> "voice-offer", from |-> c, data |-> data]
    /\ pre' = Snapshot
    /\ IF data = NoPayload
       THEN \* destructuring undefined throws, and nothing catches it
            /\ emitted' = <<>>
            /\ uncaught' = TRUE
       ELSE /\ emitted' = Relay(joined, "voice-offer", data.to,
                                OfferMessage(c, data))
            /\ uncaught' = FALSE
    /\ hooks' = <<>>
    /\ fetches' = <<>>
    /\ UNCHANGED <<rooms, joined, connected, nextId, RESUME_BASE>>

VoiceAnswer(c, data) ==
    /\ c \in connected
    /\ event' = [op |-> "voice-answer", from |-> c, data |-> data]
    /\ pre' = Snapshot
    /\ IF data = NoPayload
       THEN \* destructuring undefined throws, and nothing catches it
            /\ emitted' = <<>>
            /\ uncaught' = TRUE
       ELSE /\ emitted' = Relay(joined, "voice-answer", data.to,
                                AnswerMessage(c, data))
            /\ uncaught' = FALSE
    /\ hooks' = <<>>
    /\ fetches' = <<>>
    /\ UNCHANGED <<rooms, joined, connected, nextId, RESUME_BASE>>

IceCandidate(c, data) ==
    /\ c \in connected
    /\ event' = [op |-> "ice-candidate", from |-> c, data |-> data]
    /\ pre' = Snapshot
    /\ IF data = NoPayload
       THEN \* destructuring undefined throws, and nothing catches it
            /\ emitted' = <<>>
            /\ uncaught' = TRUE
       ELSE /\ emitted' = Relay(joined, "ice-candidate", data.to,
                                CandidateMessage(c, data))
            /\ uncaught' = FALSE
    /\ hooks' = <<>>
    /\ fetches' = <<>>
    /\ UNCHANGED <<rooms, joined, connected, nextId, RESUME_BASE>>

-----------------------------------------------------------------------------
(* disconnect *)

\* Object keys in for-in order (insertion order)
KeyOrder(rs) == [i \in 1..Len(rs) |-> rs[i].id]

\* One iteration of the loop body for roomId; st carries the registry and
\* what the handler has sent and started so far.
DisconnectStep(st, c, jn, base, roomId) ==
    LET us == Without(Users(st.rooms, roomId), c)
        rs1 == SetUsers(st.rooms, roomId, us)
        sent == st.emitted \o UserLeft(jn, c, roomId)
    IN  IF Len(us) = 0
        THEN [rooms |-> Delete(rs1, roomId),
              emitted |-> sent,
              hooks |-> Append(st.hooks, roomId),
              fetches |-> st.fetches \o FinalizeFetches(base, roomId)]
        ELSE [rooms |-> rs1,
              emitted |-> sent,
              hooks |-> st.hooks,
              fetches |-> st.fetches]

\* A loop that returns after the first room.
DisconnectLoop_FirstOnly(keys, st, c, jn, base) ==
    IF keys = <<>> THEN st ELSE DisconnectStep(st, c, jn, base, Head(keys))

RECURSIVE DisconnectLoop(_, _, _, _, _)
\* for (const roomId in rooms) { ... }
DisconnectLoop(keys, st, c, jn, base) ==
    IF keys = <<>>
    THEN st
    ELSE DisconnectLoop(Tail(keys), DisconnectStep(st, c, jn, base, Head(keys)),
                        c, jn, base)

\* Socket.IO takes the socket out of all its rooms before it fires
\* "disconnect"; the identity is never handed out again.
Disconnect(c) ==
    /\ c \in connected
    /\ event' = [op |-> "disconnect", from |-> c]
    /\ pre' = Snapshot
    /\ uncaught' = FALSE
    /\ connected' = connected \ {c}
    /\ UNCHANGED <<nextId, RESUME_BASE>>
    /\ LET jn == [joined EXCEPT ![c] = {}]
           st == DisconnectLoop(KeyOrder(rooms),
                                [rooms |-> rooms, emitted |-> <<>>,
                                 hooks |-> <<>>, fetches |-> <<>>],
                                c, jn, RESUME_BASE)
       IN  /\ joined' = jn
           /\ rooms' = st.rooms
           /\ emitted' = st.emitted
           /\ hooks' = st.hooks
           /\ fetches' = st.fetches

-----------------------------------------------------------------------------
(* Specifications *)

OfferData ==
    [roomId : RelayRoomIds, offer : RelayBodies, to : RelayTargets,
     from : ClientFrom]
        \cup [roomId : {UNDEFINED}, offer : OtherBodies, to : OtherTargets,
              from : ClientFrom]
        \cup {NoPayload}

AnswerData ==
    [roomId : RelayRoomIds, answer : RelayBodies, to : RelayTargets,
     from : ClientFrom]
        \cup [roomId : {UNDEFINED}, answer : OtherBodies, to : OtherTargets,
              from : ClientFrom]
        \cup {NoPayload}

CandidateData ==
    [candidate : RelayBodies, to : RelayTargets, from : ClientFrom]
        \cup [candidate : OtherBodies, to : OtherTargets, from : ClientFrom]
        \cup {NoPayload}

Conns == Ids(MaxConns)

Next ==
    \/ Connect(MaxConns) /\ UNCHANGED <<FinVars, WireVars>>
    \/ \E c \in Conns, roomId \in RoomIds :
          JoinVoiceRoom(c, roomId) /\ UNCHANGED <<FinVars, WireVars>>
    \/ \E c \in Conns, roomId \in RoomIds :
          LeaveVoiceRoom(c, roomId) /\ UNCHANGED <<FinVars, WireVars>>
    \/ \E c \in Conns, data \in OfferData :
          VoiceOffer(c, data) /\ UNCHANGED <<FinVars, WireVars>>
    \/ \E c \in Conns, data \in AnswerData :
          VoiceAnswer(c, data) /\ UNCHANGED <<FinVars, WireVars>>
    \/ \E c \in Conns, data \in CandidateData :
          IceCandidate(c, data) /\ UNCHANGED <<FinVars, WireVars>>
    \/ \E c \in Conns : Disconnect(c) /\ UNCHANGED <<FinVars, WireVars>>

Spec == Init /\ [][Next]_vars

\* The same server once the first CapPrefill connections have each sent
\* join-voice-room(CapRoom) and stay in it; the connections accepted after
\* them send any events.
CapPrefill == MAX_ROOM_SIZE - 1

CapRoom == "r 1"

CapConns == CapPrefill + CapExtra

CapActors == Ids(CapConns) \ Ids(CapPrefill)

InitCap ==
    /\ rooms = <<[id |-> CapRoom, users |-> [i \in 1..CapPrefill |-> Id(i)]]>>
    /\ joined = [d \in Ids(Len(ConnName)) |->
                    IF d \in Ids(CapPrefill) THEN {d, CapRoom} ELSE {}]
    /\ connected = Ids(CapPrefill)
    /\ nextId = CapPrefill
    /\ RESUME_BASE \in ResumeValues
    /\ emitted = <<>>
    /\ hooks = <<>>
    /\ fetches = <<>>
    /\ uncaught = FALSE
    /\ event = [op |-> "init"]
    /\ pre = Snapshot
    /\ InitAsync

NextCap ==
    \/ Connect(CapConns) /\ UNCHANGED <<FinVars, WireVars>>
    \/ \E c \in CapActors, roomId \in RoomIds :
          JoinVoiceRoom(c, roomId) /\ UNCHANGED <<FinVars, WireVars>>
    \/ \E c \in CapActors, roomId \in RoomIds :
          LeaveVoiceRoom(c, roomId) /\ UNCHANGED <<FinVars, WireVars>>
    \/ \E c \in CapActors, data \in OfferData :
          VoiceOffer(c, data) /\ UNCHANGED <<FinVars, WireVars>>
    \/ \E c \in CapActors, data \in AnswerData :
          VoiceAnswer(c, data) /\ UNCHANGED <<FinVars, WireVars>>
    \/ \E c \in CapActors, data \in CandidateData :
          IceCandidate(c, data) /\ UNCHANGED <<FinVars, WireVars>>
    \/ \E c \in CapActors : Disconnect(c) /\ UNCHANGED <<FinVars, WireVars>>

SpecCap == InitCap /\ [][NextCap]_vars

-----------------------------------------------------------------------------
(* Vocabulary of the properties: the handler that ran last *)

Joining(c, r) ==
    event.op = "join-voice-room" /\ event.from = c /\ event.roomId = r

Leaving(c, r) ==
    event.op = "leave-voice-room" /\ event.from = c /\ event.roomId = r

Disconnecting(c) == event.op = "disconnect" /\ event.from = c

RelayEvents == {"voice-offer", "voice-answer", "ice-candidate"}

\* The last handler served a relay event of connection c that carried a
\* payload object.
Relaying(c) ==
    event.op \in RelayEvents /\ event.from = c /\ event.data # NoPayload

\* The field of a relay payload that holds the body, by event name.
BodyField(ev) ==
    CASE ev = "voice-offer" -> "offer"
      [] ev = "voice-answer" -> "answer"
      [] ev = "ice-candidate" -> "candidate"

AllConns == Ids(Len(ConnName))

\* The emits of the last handler that carry event ev with the socket
\* identity id as their argument.
EmitsOf(ev, id) ==
    {i \in 1..Len(emitted) : emitted[i].ev = ev /\ emitted[i].arg = id}

\* How many times the last handler delivered (ev, id) to socket d.
Deliveries(ev, id, d) ==
    Cardinality({i \in EmitsOf(ev, id) : d \in emitted[i].rcpts})

\* How many times the last handler broadcast (ev, id) to room r.
Broadcasts(ev, id, r) ==
    Cardinality({i \in EmitsOf(ev, id) : emitted[i].to = r})

Occurrences(seq, x) == Cardinality({i \in 1..Len(seq) : seq[i] = x})

NoEmitOf(ev) == \A i \in 1..Len(emitted) : emitted[i].ev # ev

-----------------------------------------------------------------------------
(* SpecFin: the finalize requests after their handler returned *)

RECURSIVE Sum(_, _)
Sum(f, S) ==
    IF S = {} THEN 0
    ELSE LET x == CHOOSE y \in S : TRUE IN f[x] + Sum(f, S \ {x})

FinRooms == {"r 1"}

\* One payload for each relay event.
FinOffers == {d \in OfferData : d # NoPayload /\ d.roomId = UNDEFINED}

FinAnswers == {d \in AnswerData : d # NoPayload /\ d.roomId = UNDEFINED}

FinCandidates == {d \in CandidateData : d # NoPayload /\ d.candidate \in OtherBodies}

\* How the awaits of a finalize closure end: resp.json() resolves; resp.json()
\* rejects and resp.text() resolves; both reject; fetch rejects.  A request
\* that is never settled hangs.
Outcomes == {"json", "text", "unreadable", "rejected"}

\* A closure that issues its request again when it failed.
OnSettled_Retries(req, outcome) ==
    IF outcome \in {"unreadable", "rejected"} THEN <<req>> ELSE <<>>

\* The requests a closure issues when its awaits end: the catch blocks are
\* empty and nothing follows them.
OnSettled(req, outcome) == <<>>

RemoveAt(seq, i) == SubSeq(seq, 1, i - 1) \o SubSeq(seq, i + 1, Len(seq))

\* How many of the requests reqs are the finalize request of room r.
RequestsFor(reqs, base, r) == Occurrences(reqs, FinalizeUrl(base, r))

\* Room r had participants in rs and has none in rs2.
BecameEmpty(rs, rs2, r) == Size(rs, r) > 0 /\ Size(rs2, r) = 0

\* fetch(url, { method: 'POST' }): the requests of a handler are in flight
\* when it returns.
TrackFinalize ==
    /\ inflight' = inflight \o fetches'
    /\ issued' = [r \in RoomIds |->
                     issued[r] + RequestsFor(fetches', RESUME_BASE, r)]
    /\ emptied' = [r \in RoomIds |->
                      emptied[r] + IF BecameEmpty(rooms, rooms', r) THEN 1 ELSE 0]
    /\ UNCHANGED WireVars

\* The awaits of the closure that issued inflight[i] end with outcome.
Settle(i, outcome) ==
    /\ i \in 1..Len(inflight)
    /\ LET more == OnSettled(inflight[i], outcome)
       IN  /\ inflight' = RemoveAt(inflight, i) \o more
           /\ issued' = [r \in RoomIds |->
                            issued[r] + RequestsFor(more, RESUME_BASE, r)]
    /\ emptied' = emptied
    /\ event' = [op |-> "settle", outcome |-> outcome]
    /\ pre' = Snapshot
    /\ emitted' = <<>>
    /\ hooks' = <<>>
    /\ fetches' = <<>>
    /\ uncaught' = FALSE
    /\ UNCHANGED <<rooms, joined, connected, nextId, RESUME_BASE, WireVars>>

\* The clients send events until MaxEmptied rooms have become empty.
ClientsActive == Sum(emptied, RoomIds) < MaxEmptied

FinJoin(c, roomId) == ClientsActive /\ JoinVoiceRoom(c, roomId) /\ TrackFinalize

FinLeave(c, roomId) == ClientsActive /\ LeaveVoiceRoom(c, roomId) /\ TrackFinalize

FinOffer(c, data) == ClientsActive /\ VoiceOffer(c, data) /\ TrackFinalize

FinAnswer(c, data) == ClientsActive /\ VoiceAnswer(c, data) /\ TrackFinalize

FinCandidate(c, data) == ClientsActive /\ IceCandidate(c, data) /\ TrackFinalize

FinDisconnect(c) == ClientsActive /\ Disconnect(c) /\ TrackFinalize

NextFin ==
    \/ Connect(MaxConns) /\ TrackFinalize
    \/ \E c \in Conns, roomId \in FinRooms : FinJoin(c, roomId)
    \/ \E c \in Conns, roomId \in FinRooms : FinLeave(c, roomId)
    \/ \E c \in Conns, data \in FinOffers : FinOffer(c, data)
    \/ \E c \in Conns, data \in FinAnswers : FinAnswer(c, data)
    \/ \E c \in Conns, data \in FinCandidates : FinCandidate(c, data)
    \/ \E c \in Conns : FinDisconnect(c)
    \/ \E i \in 1..Len(inflight), outcome \in Outcomes : Settle(i, outcome)

SpecFin == Init /\ [][NextFin]_vars

-----------------------------------------------------------------------------
(* SpecOrder: the packets on their way to the sockets *)

OrderRooms == {"r 1", "c1"}

MembershipEvents == {"user-joined", "user-left"}

\* The packets the emits of one handler put on the connection of socket d,
\* in the order of the emit calls.
PacketsFor(d, emits, stamp) ==
    LET mine == SelectSeq(emits, LAMBDA e : d \in e.rcpts)
    IN  [i \in 1..Len(mine) |->
            [ev |-> mine[i].ev, room |-> mine[i].to, arg |-> mine[i].arg,
             stamp |-> stamp]]

\* A server that puts the packets of a handler in front of the ones still
\* waiting.
Post_NewestFirst(w, live, emits, stamp) ==
    [d \in DOMAIN w |->
        IF d \in live THEN PacketsFor(d, emits, stamp) \o w[d] ELSE <<>>]

\* emit() writes to the connection of every recipient before the handler
\* goes on; the packets of a closed connection are dropped.
Post(w, live, emits, stamp) ==
    [d \in DOMAIN w |->
        IF d \in live THEN w[d] \o PacketsFor(d, emits, stamp) ELSE <<>>]

TrackWire ==
    /\ clock' = IF emitted' # <<>> THEN clock + 1 ELSE clock
    /\ wire' = Post(wire, connected', emitted', clock + 1)
    /\ last' = last
    /\ UNCHANGED FinVars

\* The client of socket d receives the oldest packet of its connection.
Receive(d) ==
    /\ d \in connected
    /\ wire[d] # <<>>
    /\ wire' = [wire EXCEPT ![d] = Tail(@)]
    /\ last' = IF Head(wire[d]).ev \in MembershipEvents
               THEN [last EXCEPT ![d][Head(wire[d]).room] = Head(wire[d]).stamp]
               ELSE last
    /\ clock' = clock
    /\ UNCHANGED <<rooms, joined, connected, nextId, RESUME_BASE, emitted,
                   hooks, fetches, uncaught, event, pre, FinVars>>

\* The clients send events until MaxClock handlers have sent something.
ClientsSending == clock < MaxClock

NextOrder ==
    \/ Connect(MaxConns) /\ TrackWire
    \/ \E c \in Conns, roomId \in OrderRooms :
          ClientsSending /\ JoinVoiceRoom(c, roomId) /\ TrackWire
    \/ \E c \in Conns, roomId \in OrderRooms :
          ClientsSending /\ LeaveVoiceRoom(c, roomId) /\ TrackWire
    \/ \E c \in Conns : ClientsSending /\ Disconnect(c) /\ TrackWire
    \/ \E d \in Conns : Receive(d)

SpecOrder == Init /\ [][NextOrder]_vars

\* The clocks of the membership packets of room r waiting for socket d,
\* oldest packet first.
Waiting(d, r) ==
    SelectSeq(wire[d], LAMBDA p : p.ev \in MembershipEvents /\ p.room = r)

-----------------------------------------------------------------------------
(* C1 - C10 *)

\* C1: every room of the registry has at most 10 participants, and a
\* connection that is not in a room holding 10 and sends join-voice-room for
\* it is not added.
C1_RoomNeverExceedsTen ==
    /\ \A i \in 1..Len(rooms) : Len(rooms[i].users) <= 10
    /\ \A c \in AllConns, r \in RoomIds :
          (/\ Joining(c, r)
           /\ Size(pre.rooms, r) = 10
           /\ c \notin Members(pre.rooms, r))
          => c \notin Members(rooms, r)

C1_Witness ==
    \E c \in AllConns, r \in RoomIds :
        /\ Joining(c, r)
        /\ Size(pre.rooms, r) = 10
        /\ c \notin Members(pre.rooms, r)
        /\ Size(rooms, r) = 10

\* C2: a join-voice-room(r) that arrives while r has 10 or more participants
\* sends exactly one event, room-full {roomId: r, max: 10}, to the requester
\* alone, and leaves the registry and every subscription as they were; no
\* finalize is started.
C2_FullRoomOnlyRepliesRoomFull ==
    \A c \in AllConns, r \in RoomIds :
        (Joining(c, r) /\ Size(pre.rooms, r) >= 10)
        => /\ Len(emitted) = 1
           /\ emitted[1].ev = "room-full"
           /\ emitted[1].arg = [roomId |-> r, max |-> 10]
           /\ emitted[1].rcpts = {c}
           /\ rooms = pre.rooms
           /\ joined = pre.joined
           /\ hooks = <<>>
           /\ fetches = <<>>
           /\ ~uncaught

C2_Witness ==
    \E c \in AllConns, r \in RoomIds :
        /\ Joining(c, r)
        /\ Size(pre.rooms, r) >= 10
        /\ Len(emitted) = 1
        /\ emitted[1].ev = "room-full"
        /\ \E d \in Members(rooms, r) : d # c /\ d \in connected

\* C3: when a member of room r sends join-voice-room(r) again, the
\* participants of r (and the whole registry) stay as they were and no
\* user-joined is sent.
C3_JoinIsIdempotent ==
    \A c \in AllConns, r \in RoomIds :
        (Joining(c, r) /\ c \in Members(pre.rooms, r))
        => /\ rooms = pre.rooms
           /\ Occurrences(Users(rooms, r), c) = 1
           /\ NoEmitOf("user-joined")

C3_Witness ==
    \E c \in AllConns, r \in RoomIds :
        /\ Joining(c, r)
        /\ c \in Members(pre.rooms, r)
        /\ Members(rooms, r) \ {c} # {}
        /\ emitted = <<>>

\* C4: on a successful join of c to r, user-joined carrying c is delivered
\* exactly once to every connection that was already a member of r, and to
\* nobody else: not to c, not to a connection outside r.
C4_UserJoinedReachesExactlyTheMembers ==
    \A c \in AllConns, r \in RoomIds :
        (/\ Joining(c, r)
         /\ c \notin Members(pre.rooms, r)
         /\ c \in Members(rooms, r))
        => \A d \in AllConns :
              Deliveries("user-joined", c, d)
                  = IF d \in Members(pre.rooms, r) THEN 1 ELSE 0

\* C5: leave-voice-room(r) from a connection that is not a member of r,
\* whether r is unknown or has other participants, changes nothing in the
\* registry, sends no event and starts no finalize.
C5_LeaveByNonMemberIsNoOp ==
    \A c \in AllConns, r \in RoomIds :
        (Leaving(c, r) /\ c \notin Members(pre.rooms, r))
        => /\ rooms = pre.rooms
           /\ emitted = <<>>
           /\ hooks = <<>>
           /\ fetches = <<>>

\* C6: after a member of R sends leave-voice-room(R) it is no participant of
\* R, the size of R is the prior size minus one, and R is absent from the
\* registry exactly when that size is zero.
C6_LeaveRemovesOneAndDeletesEmptyRoom ==
    \A c \in AllConns, r \in RoomIds :
        (Leaving(c, r) /\ c \in Members(pre.rooms, r))
        => /\ c \notin Members(rooms, r)
           /\ Size(rooms, r) = Size(pre.rooms, r) - 1
           /\ (r \notin Keys(rooms)) <=> (Size(pre.rooms, r) - 1 = 0)

C6_Witness ==
    \E c \in AllConns, r \in RoomIds :
        /\ Leaving(c, r)
        /\ c \in Members(pre.rooms, r)
        /\ Size(pre.rooms, r) = 2
        /\ r \in Keys(rooms)

\* C7: when a member c of r sends leave-voice-room(r), user-left carrying c
\* is broadcast once to r and delivered exactly once to every connection
\* that remains a member of r, whether or not the room became empty.
C7_UserLeftReachesRemainingMembers ==
    \A c \in AllConns, r \in RoomIds :
        (Leaving(c, r) /\ c \in Members(pre.rooms, r))
        => /\ Broadcasts("user-left", c, r) = 1
           /\ \A d \in Members(pre.rooms, r) \ {c} :
                 Deliveries("user-left", c, d) = 1

C7_Witness ==
    \E c \in AllConns, r \in RoomIds :
        /\ Leaving(c, r)
        /\ c \in Members(pre.rooms, r)
        /\ \E d \in Members(rooms, r) : Deliveries("user-left", c, d) = 1

\* The rooms c was a member of when the last handler started, and those of
\* them that had no other member.
RoomsOf(c) == {r \in Keys(pre.rooms) : c \in Members(pre.rooms, r)}

EmptiedBy(c) == {r \in RoomsOf(c) : Members(pre.rooms, r) = {c}}

\* C8: when a member of the rooms S disconnects it is removed from every
\* room of S, one user-left carrying its identity is broadcast to each room
\* of S, each room of S left empty is deleted, and the finalize closure is
\* started exactly once per emptied room and for no other room; it issues
\* one request, for that room's identifier, when RESUME_BASE is set.
C8_DisconnectLeavesEveryRoom ==
    \A c \in AllConns :
        Disconnecting(c)
        => /\ \A r \in RoomsOf(c) :
                 /\ c \notin Members(rooms, r)
                 /\ Broadcasts("user-left", c, r) = 1
                 /\ r \in EmptiedBy(c) => r \notin Keys(rooms)
           /\ \A r \in RoomIds :
                 Occurrences(hooks, r) = IF r \in EmptiedBy(c) THEN 1 ELSE 0
           /\ Len(hooks) = Cardinality(EmptiedBy(c))
           /\ IF RESUME_BASE = ""
              THEN fetches = <<>>
              ELSE /\ Len(fetches) = Len(hooks)
                   /\ \A i \in 1..Len(hooks) :
                         fetches[i].roomId = EncodeURIComponent(hooks[i])

C8_Witness ==
    \E c \in AllConns :
        /\ Disconnecting(c)
        /\ Cardinality(RoomsOf(c)) = 2
        /\ Cardinality(EmptiedBy(c)) = 1
        /\ Len(hooks) = 1

\* C9: a disconnect touches only the rooms the connection was a member of:
\* every other room keeps its participants and gets no user-left, and the
\* disconnect of a connection that is in no room changes nothing in the
\* registry and sends nothing.
C9_DisconnectTouchesOnlyOwnRooms ==
    \A c \in AllConns :
        Disconnecting(c)
        => /\ \A r \in Keys(pre.rooms) \ RoomsOf(c) :
                 /\ r \in Keys(rooms)
                 /\ Users(rooms, r) = Users(pre.rooms, r)
                 /\ Broadcasts("user-left", c, r) = 0
           /\ RoomsOf(c) = {}
                 => /\ rooms = pre.rooms
                    /\ emitted = <<>>
                    /\ hooks = <<>>
                    /\ fetches = <<>>

\* C10: after every handler, every room identifier of the registry has a
\* non-empty participant list, and each identifier is in it once.
C10_NoEmptyRoomPersists ==
    /\ \A i \in 1..Len(rooms) : Len(rooms[i].users) > 0
    /\ \A i, j \in 1..Len(rooms) : rooms[i].id = rooms[j].id => i = j

C10_Witness ==
    \E c \in AllConns, r \in RoomIds :
        /\ event.op \in {"leave-voice-room", "disconnect"}
        /\ event.from = c
        /\ Members(pre.rooms, r) = {c}
        /\ r \notin Keys(rooms)
        /\ rooms # <<>>

-----------------------------------------------------------------------------
(* C11 - C20 *)

\* C11: no room's participant list contains the same connection identity
\* more than once.
C11_NoDuplicateParticipants ==
    \A i \in 1..Len(rooms) :
        \A j, k \in 1..Len(rooms[i].users) :
            rooms[i].users[j] = rooms[i].users[k] => j = k

C11_Witness ==
    \E c \in AllConns, r \in RoomIds :
        /\ Joining(c, r)
        /\ c \in Members(pre.rooms, r)
        /\ Len(Users(rooms, r)) = 2
        /\ Occurrences(Users(rooms, r), c) = 1


\* C15: a voice-offer, voice-answer or ice-candidate that connection c sends
\* with a payload is forwarded as one event of the same name, addressed to the
\* payload's `to`, whose body (offer, answer, candidate) is the one of the
\* payload, whose roomId is the one of the payload for offer and answer, and
\* whose `from` is c's own identity whatever `from` the payload carried.
C15_RelayPreservesContentAndStampsSender ==
    \A c \in AllConns :
        Relaying(c)
        => /\ Len(emitted) = 1
           /\ emitted[1].ev = event.op
           /\ emitted[1].to = event.data.to
           /\ emitted[1].arg.from = c
           /\ emitted[1].arg[BodyField(event.op)] = event.data[BodyField(event.op)]
           /\ event.op # "ice-candidate"
              => emitted[1].arg.roomId = event.data.roomId
           /\ DOMAIN emitted[1].arg =
                 {"from", BodyField(event.op)}
                     \cup (IF event.op = "ice-candidate" THEN {} ELSE {"roomId"})

C15_Witness ==
    /\ Relaying("c2")
    /\ event.op = "voice-offer"
    /\ event.data.to = "c1"
    /\ event.data.from = "c1"
    /\ "c1" \in emitted[1].rcpts
    /\ emitted[1].arg = [from |-> "c2", offer |-> "X", roomId |-> "r 1"]


\* C16: a relay event that connection c sends with a payload is delivered to
\* no connection other than the connected one whose identity is the payload's
\* `to`, and no error escapes the handler.
C16_RelayReachesOnlyTheTarget ==
    \A c \in AllConns :
        Relaying(c)
        => /\ \A i \in 1..Len(emitted) :
                 emitted[i].rcpts \subseteq ({event.data.to} \cap connected)
           /\ ~uncaught


\* C17: a relay event that connection c sends with a payload whose `to` is
\* the identity of a connected socket is delivered to that socket.
C17_RelayToLiveTargetIsDelivered ==
    \A c \in AllConns :
        (Relaying(c) /\ event.data.to \in connected)
        => \E i \in 1..Len(emitted) : event.data.to \in emitted[i].rcpts


C19_MemberJoinIsSilent ==
    \A c \in AllConns, r \in RoomIds :
        (Joining(c, r) /\ c \in Members(pre.rooms, r))
        => emitted = <<>>

\* C19: when a participant c of room r sends join-voice-room(r), the
\* membership of r stays as it was and no user-joined is sent; while r has
\* fewer than 10 participants the handler sends no event at all, and when r
\* has 10 it sends one room-full {roomId: r, max: 10} to c alone.
C19_MemberJoinSilentBelowCapacity ==
    \A c \in AllConns, r \in RoomIds :
        (Joining(c, r) /\ c \in Members(pre.rooms, r))
        => /\ rooms = pre.rooms
           /\ NoEmitOf("user-joined")
           /\ Size(pre.rooms, r) < 10 => emitted = <<>>
           /\ Size(pre.rooms, r) >= 10
              => /\ Len(emitted) = 1
                 /\ emitted[1].ev = "room-full"
                 /\ emitted[1].arg = [roomId |-> r, max |-> 10]
                 /\ emitted[1].rcpts = {c}

C19_Witness ==
    \E c \in AllConns, r \in RoomIds :
        /\ Joining(c, r)
        /\ c \in Members(pre.rooms, r)
        /\ Size(pre.rooms, r) = 10
        /\ Len(emitted) = 1
        /\ emitted[1].ev = "room-full"
        /\ emitted[1].rcpts = {c}


\* The rooms other than r keep their participant lists, and the sockets
\* other than c their subscriptions.
OthersUntouched(c, r) ==
    /\ \A q \in (Keys(pre.rooms) \cup Keys(rooms)) \ {r} :
          /\ q \in Keys(pre.rooms) /\ q \in Keys(rooms)
          /\ Users(rooms, q) = Users(pre.rooms, q)
    /\ \A d \in AllConns \ {c} : joined[d] = pre.joined[d]

\* C20: no error escapes the handler of any inbound event, and a join, leave
\* or relay event of connection c leaves every room other than the one it
\* names and every other socket's subscriptions as they were.
C20_NoEventIsFatalOrContagious ==
    /\ ~uncaught
    /\ \A c \in AllConns, r \in RoomIds :
          (Joining(c, r) \/ Leaving(c, r)) => OthersUntouched(c, r)
    /\ \A c \in AllConns :
          (event.op \in RelayEvents /\ event.from = c)
          => OthersUntouched(c, UNDEFINED) /\ rooms = pre.rooms


\* C12: for every room id r, the number of finalize requests issued for r is
\* the number of times r went from non-empty to empty when RESUME_BASE is
\* set, and zero when it is not; this stays so when requests fail, and a
\* room that is emptied, re-created and emptied again has two requests.
C12_OneFinalizePerEmptying ==
    \A r \in RoomIds :
        /\ issued[r] = IF RESUME_BASE # "" THEN emptied[r] ELSE 0
        /\ RequestsFor(inflight, RESUME_BASE, r) <= issued[r]

C12_Witness ==
    /\ RESUME_BASE # ""
    /\ emptied["r 1"] = 2
    /\ issued["r 1"] = 2
    /\ RequestsFor(inflight, RESUME_BASE, "r 1") = 1
    /\ event.op = "settle"
    /\ event.outcome = "rejected"


\* The last handler left its finalize requests in flight, newest last.
RequestsLeftInFlight ==
    /\ Len(inflight) >= Len(fetches)
    /\ SubSeq(inflight, Len(inflight) - Len(fetches) + 1, Len(inflight)) = fetches

\* The server accepts every event of every connected client.
AcceptsEveryEvent ==
    \A c \in connected :
        /\ \A roomId \in FinRooms :
              ENABLED FinJoin(c, roomId) /\ ENABLED FinLeave(c, roomId)
        /\ \A data \in FinOffers : ENABLED FinOffer(c, data)
        /\ \A data \in FinAnswers : ENABLED FinAnswer(c, data)
        /\ \A data \in FinCandidates : ENABLED FinCandidate(c, data)
        /\ ENABLED FinDisconnect(c)

\* C13: a handler that starts finalize closures returns with their rooms
\* deleted and their requests still in flight; while requests are in flight
\* the server accepts every join, leave, relay and disconnect event of every
\* connected client; and a request that settles, with whatever outcome,
\* changes no room and no subscription, sends nothing and raises nothing.
C13_FinalizeNeverStallsTheCore ==
    /\ hooks # <<>>
       => /\ RequestsLeftInFlight
          /\ \A i \in 1..Len(hooks) : hooks[i] \notin Keys(rooms)
    /\ (inflight # <<>> /\ ClientsActive) => AcceptsEveryEvent
    /\ event.op = "settle"
       => /\ rooms = pre.rooms
          /\ joined = pre.joined
          /\ connected = pre.connected
          /\ emitted = <<>>
          /\ ~uncaught

C13_Witness ==
    \E c \in AllConns :
        /\ Leaving(c, "r 1")
        /\ hooks = <<"r 1">>
        /\ "r 1" \notin Keys(rooms)
        /\ Len(fetches) = 1
        /\ Len(inflight) = 2
        /\ emitted # <<>>


-----------------------------------------------------------------------------
(* SpecApi: the entry point src/api/index.ts *)

\* socket.on("join-voice-room") of src/api/index.ts: no limit check and no
\* membership test before the push, and user-joined is always sent.
ApiJoinVoiceRoom(c, roomId) ==
    /\ c \in connected
    /\ event' = [op |-> "join-voice-room", from |-> c, roomId |-> roomId]
    /\ pre' = Snapshot
    /\ hooks' = <<>>
    /\ fetches' = <<>>
    /\ UNCHANGED <<connected, nextId, RESUME_BASE>>
    /\ LET rs1 == IF ~Truthy(rooms, roomId) THEN Create(rooms, roomId) ELSE rooms
       IN  IF roomId \notin Keys(rs1)
           THEN \* inherited member without users: users.push throws, and
                \* nothing catches it
                /\ rooms' = rs1
                /\ joined' = joined
                /\ emitted' = <<>>
                /\ uncaught' = TRUE
           ELSE LET jn == [joined EXCEPT ![c] = @ \cup {roomId}]
                IN  /\ rooms' = SetUsers(rs1, roomId,
                                         Append(Users(rs1, roomId), c))
                    /\ joined' = jn
                    /\ emitted' = UserJoined(jn, c, roomId)
                    /\ uncaught' = FALSE

\* One iteration of the disconnect loop of src/api/index.ts: no finalize
\* closure.
ApiDisconnectStep(st, c, jn, roomId) ==
    LET us == Without(Users(st.rooms, roomId), c)
        rs1 == SetUsers(st.rooms, roomId, us)
    IN  [rooms |-> IF Len(us) = 0 THEN Delete(rs1, roomId) ELSE rs1,
         emitted |-> st.emitted \o UserLeft(jn, c, roomId)]

RECURSIVE ApiDisconnectLoop(_, _, _, _)
\* for (const roomId in rooms) { ... }
ApiDisconnectLoop(keys, st, c, jn) ==
    IF keys = <<>>
    THEN st
    ELSE ApiDisconnectLoop(Tail(keys), ApiDisconnectStep(st, c, jn, Head(keys)),
                           c, jn)

ApiDisconnect(c) ==
    /\ c \in connected
    /\ event' = [op |-> "disconnect", from |-> c]
    /\ pre' = Snapshot
    /\ uncaught' = FALSE
    /\ hooks' = <<>>
    /\ fetches' = <<>>
    /\ connected' = connected \ {c}
    /\ UNCHANGED <<nextId, RESUME_BASE>>
    /\ LET jn == [joined EXCEPT ![c] = {}]
           st == ApiDisconnectLoop(KeyOrder(rooms),
                                   [rooms |-> rooms, emitted |-> <<>>], c, jn)
       IN  /\ joined' = jn
           /\ rooms' = st.rooms
           /\ emitted' = st.emitted

ApiRooms == {"r 1"} \cup ProtoKeys

\* The clients stop joining a room once it has one user more than the limit
\* of the other entry point.
ApiMaxUsers == MAX_ROOM_SIZE + 1

NextApi ==
    \/ Connect(MaxConns) /\ UNCHANGED <<FinVars, WireVars>>
    \/ \E c \in Conns, roomId \in ApiRooms :
          /\ Size(rooms, roomId) < ApiMaxUsers
          /\ ApiJoinVoiceRoom(c, roomId)
          /\ UNCHANGED <<FinVars, WireVars>>
    \/ \E c \in Conns, data \in FinOffers :
          VoiceOffer(c, data) /\ UNCHANGED <<FinVars, WireVars>>
    \/ \E c \in Conns, data \in FinAnswers :
          VoiceAnswer(c, data) /\ UNCHANGED <<FinVars, WireVars>>
    \/ \E c \in Conns, data \in FinCandidates :
          IceCandidate(c, data) /\ UNCHANGED <<FinVars, WireVars>>
    \/ \E c \in Conns : ApiDisconnect(c) /\ UNCHANGED <<FinVars, WireVars>>

SpecApi == Init /\ [][NextApi]_vars

-----------------------------------------------------------------------------
(* C21 - C25 *)

\* C21: in src/api/index.ts no room has more than 10 users; a
\* join-voice-room for a room that has 10 users is answered with room-full
\* and adds nobody; and a join by a connection that is already in the room
\* adds no second entry for it.
C21_ApiRoomIsCappedAndJoinIdempotent ==
    /\ \A i \in 1..Len(rooms) : Len(rooms[i].users) <= 10
    /\ \A c \in AllConns, r \in RoomIds :
          Joining(c, r)
          => /\ Size(pre.rooms, r) >= 10
                => /\ rooms = pre.rooms
                   /\ \E i \in 1..Len(emitted) : emitted[i].ev = "room-full"
             /\ c \in Members(pre.rooms, r)
                => Occurrences(Users(rooms, r), c) = 1


\* The participant list of r in rs, empty when rs has no room r.
UsersOrNone(rs, r) == IF r \in Keys(rs) THEN Users(rs, r) ELSE <<>>

\* C22: when a connection c that is not a participant of r sends
\* join-voice-room(r) while r has fewer than 10 participants, whatever
\* string r is, no error escapes the handler and afterwards r is in the
\* registry with the participants it had before (none for a room the
\* registry did not have) followed by c.
C22_JoinBelowCapacitySucceeds ==
    \A c \in AllConns, r \in RoomIds :
        (/\ Joining(c, r)
         /\ c \notin Members(pre.rooms, r)
         /\ Size(pre.rooms, r) < 10)
        => /\ ~uncaught
           /\ r \in Keys(rooms)
           /\ Users(rooms, r) = Append(UsersOrNone(pre.rooms, r), c)


\* The entries of the participant list us that are not connection c.
Others(us, c) == SelectSeq(us, LAMBDA u : u # c)

C24_SubscriptionsMatchRegistry ==
    \A c \in connected :
        \A r \in Keys(rooms) \cup (RoomIds \ AllConns) :
            r \in joined[c] <=> c \in Members(rooms, r)


====
